---- MODULE Spec2Model ----
(***************************************************************************)
(* ChatBuddy: the chat store, the chat hooks and the session/auth service. *)
(*                                                                         *)
(* The repository holds several storage back ends behind the same calls.   *)
(* Two of them are complete in-process programs and are modelled here:     *)
(*   - MockDatabase (src/utils/auth.ts 671-827), used by the hooks of      *)
(*     src/unnamed/part_009 (useChats) and src/unnamed/part_007;           *)
(*   - webDatabase (src/utils/webDatabase.ts), which is what the name      *)
(*     `prisma` is bound to (src/utils/jwt.ts 203-229), used by            *)
(*     PrismaDatabase, AuthService and the hooks of src/unnamed/part_008.  *)
(*                                                                         *)
(* JavaScript runs a handler to completion between two awaits, so one      *)
(* action is one such run; a call made before an await has already         *)
(* executed the synchronous body of the called mock method.                *)
(* Time is counted in clock ticks (one tick = one value of Date.now()).    *)
(***************************************************************************)
EXTENDS Integers, Sequences, FiniteSets, TLC

\* ---------------------------------------------------------------- bounds
MaxTime == 2
MaxChats == 2
MaxMsgs == 2
MaxAuthTime == 3
MaxUsers == 3
MaxTokens == 2
MaxSweepTime == 4
MaxJwtTime == 6
MaxIssued == 2
MaxInserts == 2
MaxDeliveries == 2
MaxPolls == 2
\* the clock of JWTUtils counts fractions of a second, and a token's lifetime
\* is given in hours: the scales of the two conversions
TicksPerSecond == 2
SecondsPerHour == 1

\* JWT_EXPIRES_IN = '7d' and the session's 7 * 24 * 60 * 60 * 1000 ms, in ticks
TokenTTL == 2
SessionTTL == 2

Users == {"u1", "u2", "u3"}
Procs == {"p1", "p2"}
Contents == {"hi", "yo"}
Emails == {"a@x.com", "b@x.com"}
Passwords == {"secret1", "secret2"}
Usernames == {"demo_user", "alice"}
\* the salt bcrypt.hash draws
Salts == {0, 1}
PasswordSalts == {0}
\* Math.random().toString(36).substr(2, 9): the random suffix of a mock id
Rnd == {0, 1}

NoChat == 0
NoText == "none"
NoTime == 0

VARIABLES
  now,            \* Date.now()
  mchats,         \* MockDatabase.chats, in insertion order (chat id = index)
  mparticipants,  \* MockDatabase.participants: chat id -> ChatParticipant[]
  mmessages,      \* MockDatabase.messages: chat id -> Message[]
  pc,             \* where each in-flight async call stands
  call,           \* the locals of each in-flight async call
  ret,            \* what the last call of each caller returned
  overlapped,     \* callers whose current/last call overlapped another call
  everOverlapped, \* some two calls have overlapped
  posted,         \* per chat, the message ids in the order they were posted
  lastOp,         \* the last completed storage operation and its outcome
  wchats,         \* WebDatabaseStorage.chats, in Map insertion order
  wmessages,      \* WebDatabaseStorage.messages, in Map insertion order
  wret,           \* the chat object the last part_008 call of each caller returned
  wusers,         \* WebDatabaseStorage.users, in Map insertion order
  wprofiles,      \* WebDatabaseStorage.profiles, in Map insertion order
  wsessions,      \* WebDatabaseStorage.sessions, in Map insertion order
  tokens,         \* the tokens that signIn has handed to clients
  signedOut,      \* the tokens that a successful signOut was called with
  lastAuth,       \* the last completed AuthService/PrismaDatabase call and its outcome
  jissued,        \* the tokens JWTUtils.createToken has made, with what they were made for
  lastJwt,        \* the last JWTUtils call and its outcome
  srv,            \* the messages table of the hosted database, one chat, in insert order
  hview,          \* useMessages: the `messages` state of the mounted hook
  hfetch,         \* useMessages: where the initial fetch stands, and its answer
  hsub,           \* useMessages: where the realtime subscription stands
  hevents,        \* INSERT events on their way to the hook, with the times sent
  hpending,       \* event handlers awaiting the row they asked for
  hookSession,    \* useAuth: the token of the `session` state, NoToken for null
  hookUser,       \* useAuth: the id of the `user` state, NoUser.id for null
  storage,        \* AsyncStorage: the auth_token and auth_user entries
  apc,            \* useAuth: where initializeAuth, signIn and signOut stand
  alocal,         \* useAuth: the locals of the calls in flight
  lastHook,       \* the last completed step of useAuth that a claim looks at
  hpolls,         \* polling useMessages: the getChatMessages requests in flight
  hsend           \* polling useMessages: where the createMessage of sendMessage stands

vars == <<now, mchats, mparticipants, mmessages, pc, call, ret, overlapped,
          everOverlapped, posted, lastOp, wchats, wmessages, wret,
          wusers, wprofiles, wsessions, tokens, signedOut, lastAuth,
          jissued, lastJwt, srv, hview, hfetch, hsub, hevents, hpending,
          hookSession, hookUser, storage, apc, alocal, lastHook, hpolls, hsend>>

webVars == <<wchats, wmessages, wret>>
authVars == <<wusers, wprofiles, wsessions, tokens, signedOut, lastAuth>>
jwtVars == <<jissued, lastJwt>>
hookVars == <<srv, hview, hfetch, hsub, hevents, hpending>>
useAuthVars == <<hookSession, hookUser, storage, apc, alocal, lastHook>>
pollVars == <<hpolls, hsend>>
clientVars == <<jwtVars, hookVars, useAuthVars, pollVars>>

mockVars == <<mchats, mparticipants, mmessages, posted>>
procVars == <<pc, call, ret, overlapped, everOverlapped>>

\* ---------------------------------------------------------------- helpers
Range(s) == {s[i] : i \in 1..Len(s)}


NoMessage == [id |-> <<NoTime, 0>>, chat_id |-> NoChat, sender_id |-> "u1",
              content |-> NoText, created_at |-> NoTime]

\* lastOp when the last step was no storage operation that a claim looks at
NoOp == [op |-> "none", ok |-> FALSE, chat |-> NoChat, message |-> NoMessage,
         wasParticipant |-> FALSE, oldLast |-> NoText, oldLastAt |-> NoTime, oldCount |-> 0,
         user |-> "u1", list |-> <<>>, target |-> NoTime, wbefore |-> <<>>]

\* "no chat object" (null) of the webDatabase calls
NoWebChat == [id |-> NoTime, isGroup |-> FALSE, participants |-> <<>>,
              lastMessage |-> NoText, lastMessageAt |-> NoTime]

\* bcrypt.hash(plain, rounds): salted, so two hashes of one input differ
BcryptHash(plain, salt) == [plain |-> plain, salt |-> salt]

\* '$2b$10$mockhashedpassword': no bcrypt hash of any password
MockHash == [plain |-> "none", salt |-> 0]

NoUser == [id |-> 0 - 1, email |-> "none", passwordHash |-> MockHash]
NoToken == [userId |-> 0 - 1, iat |-> NoTime]
NoSession == [id |-> NoTime, userId |-> 0 - 1, token |-> NoToken,
              tokenHash |-> BcryptHash(NoToken, 0), expiresAt |-> NoTime]

\* initializeMockData (webDatabase.ts 89-111): user-1 / demo_user
DemoUser == [id |-> 0, email |-> "demo@example.com", passwordHash |-> MockHash]
DemoProfile == [id |-> 0, username |-> "demo_user", isOnline |-> TRUE]

NoCall == [user |-> "u1", other |-> "u1", existing |-> NoChat, chat |-> NoChat, todo |-> <<>>,
           wexisting |-> NoWebChat, wchat |-> NoWebChat,
           email |-> "none", password |-> "none", username |-> "none",
           auser |-> NoUser, taken |-> FALSE, token |-> NoToken, expiresAt |-> NoTime,
           before |-> <<>>, profilesBefore |-> <<>>, usersBefore |-> <<>>]

\* lastAuth when the last step completed no call that a claim looks at
NoAuth == [op |-> "none", ok |-> FALSE, error |-> "none", token |-> NoToken,
           hash |-> BcryptHash(NoToken, 0), session |-> NoSession, before |-> <<>>,
           email |-> "none", profilesBefore |-> <<>>, usersBefore |-> <<>>]

Active(p) == pc[p] \notin {"idle", "done"}

\* a string is a sequence of characters; b64 tells a base64 digit, which stands
\* for the character it encodes, from the plain character
Chr(c) == [c |-> c, n |-> 0, b64 |-> FALSE]
Num(n) == [c |-> "#", n |-> n, b64 |-> FALSE]
Dot == Chr(".")

\* AsyncStorage without auth_token and auth_user
NoStorage == [token |-> NoToken, user |-> NoUser.id]

\* the locals of useAuth's calls: what initializeAuth read, what signIn was
\* called with and given, what signOut presents, and whether another call of
\* the hook was in flight while signOut ran
NoLocals == [storedToken |-> NoToken, email |-> "none", password |-> "none",
             token |-> NoToken, outToken |-> NoToken, outOverlapped |-> FALSE]

\* lastHook when the last step ended no call that a claim looks at
NoHook == [op |-> "none", serverOk |-> FALSE, hadToken |-> FALSE, overlapped |-> FALSE,
           removed |-> NoToken, stored |-> NoToken, cleared |-> NoToken]

\* no sendMessage in flight
NoSend == [at |-> "idle", id |-> 0]

\* the initial fetch of a hook that has not mounted yet
NoFetch == [at |-> "none", data |-> <<>>, ok |-> FALSE]

NoPayload == [userId |-> <<>>, email |-> <<>>, iat |-> NoTime, exp |-> NoTime]
NoJwt == [op |-> "none", ok |-> FALSE, error |-> "none", token |-> <<>>,
          payload |-> NoPayload, newToken |-> <<>>, expired |-> FALSE, wellFormed |-> FALSE]

\* ------------------------------------------------ MockDatabase (auth.ts)
\* participants.map(p => p.user_id)
UserIds(c) == [i \in 1..Len(mparticipants[c]) |-> mparticipants[c][i].user_id]

\* a findDirectChat that matches the creator and the invited user in that order only
IsDirectChatOf_Ordered(c, userId1, userId2) ==
  /\ ~mchats[c].is_group
  /\ Len(mparticipants[c]) = 2
  /\ UserIds(c) = <<userId1, userId2>>

\* the test of MockDatabase.findDirectChat on one chat
IsDirectChatOf(c, userId1, userId2) ==
  /\ ~mchats[c].is_group
  /\ Len(mparticipants[c]) = 2
  /\ userId1 \in Range(UserIds(c))
  /\ userId2 \in Range(UserIds(c))

\* MockDatabase.findDirectChat: the first chat, in insertion order, that passes
findDirectChat(userId1, userId2) ==
  LET hits == {c \in 1..Len(mchats) : IsDirectChatOf(c, userId1, userId2)}
  IN IF hits = {} THEN NoChat ELSE CHOOSE c \in hits : \A d \in hits : c <= d

\* MockDatabase.createChat: chats.set, participants.set(id, []), messages.set(id, [])
NewChat(isGroup) ==
  [is_group |-> isGroup, created_at |-> now, last_message |-> NoText, last_message_at |-> NoTime]

\* MockDatabase.addChatParticipant: participants.push(participant)
addChatParticipant(c, userId, role) ==
  [mparticipants EXCEPT ![c] = Append(@, [user_id |-> userId, role |-> role])]

\* MockDatabase.createMessage: messages.push(message)
PushMessage(c, m) == [mmessages EXCEPT ![c] = Append(@, m)]

\* a createMessage that leaves the chat's summary alone
UpdateLastMessage_Skip(c, content, at) == mchats

\* MockDatabase.createMessage: "Update chat last message"
UpdateLastMessage(c, content, at) ==
  [mchats EXCEPT ![c].last_message = content, ![c].last_message_at = at]

\* MockDatabase.getChatMessages
getChatMessages(c) == mmessages[c]

AllMessageIds == UNION {{m.id : m \in Range(mmessages[c])} : c \in 1..Len(mmessages)}
MessageCount == Cardinality(AllMessageIds)

\* --------------------------------------------------------------- actions
Init ==
  /\ now = 1
  /\ mchats = <<>>
  /\ mparticipants = <<>>
  /\ mmessages = <<>>
  /\ posted = <<>>
  /\ pc = [p \in Procs |-> "idle"]
  /\ call = [p \in Procs |-> NoCall]
  /\ ret = [p \in Procs |-> NoChat]
  /\ overlapped = {}
  /\ everOverlapped = FALSE
  /\ lastOp = NoOp
  /\ wchats = <<>>
  /\ wmessages = <<>>
  /\ wret = [p \in Procs |-> NoWebChat]
  /\ wusers = <<DemoUser>>
  /\ wprofiles = <<DemoProfile>>
  /\ wsessions = <<>>
  /\ tokens = {}
  /\ signedOut = {}
  /\ lastAuth = NoAuth
  /\ jissued = {}
  /\ lastJwt = NoJwt
  /\ srv = <<>>
  /\ hview = <<>>
  /\ hfetch = NoFetch
  /\ hsub = "none"
  /\ hevents = <<>>
  /\ hpending = <<>>
  /\ hookSession = NoToken
  /\ hookUser = NoUser.id
  /\ storage = NoStorage
  /\ apc = [init |-> "getItem", signIn |-> "idle", signOut |-> "idle"]
  /\ alocal = NoLocals
  /\ lastHook = NoHook
  /\ hpolls = <<>>
  /\ hsend = NoSend

\* the clock advances between two handler runs
Tick ==
  /\ now < MaxTime
  /\ now' = now + 1
  /\ lastOp' = NoOp
  /\ UNCHANGED <<mockVars, procVars, webVars, authVars, clientVars>>

\* chats that calls in flight are still going to create
PendingCreates == Cardinality({q \in Procs : pc[q] = "awaitFind" /\ call[q].existing = NoChat})

\* useChats.findOrCreateDirectChat (part_009 57-62): the call of db.findDirectChat
FindOrCreateStart(p, user, other) ==
  /\ ~Active(p)
  /\ LET found == findDirectChat(user, other)
         others == {q \in Procs : q # p /\ Active(q)}
     IN /\ found = NoChat => Len(mchats) + PendingCreates < MaxChats
        /\ call' = [call EXCEPT ![p] = [NoCall EXCEPT !.user = user, !.other = other,
                                                      !.existing = found]]
        /\ overlapped' = IF others = {} THEN overlapped \ {p} ELSE overlapped \cup {p} \cup others
        /\ everOverlapped' = (everOverlapped \/ others # {})
  /\ pc' = [pc EXCEPT ![p] = "awaitFind"]
  /\ ret' = [ret EXCEPT ![p] = NoChat]
  /\ lastOp' = NoOp
  /\ UNCHANGED <<now, mockVars>>
  /\ UNCHANGED <<webVars, authVars, clientVars>>

\* part_009 64-66: if (existingChat) return existingChat
FindOrCreateFound(p) ==
  /\ pc[p] = "awaitFind"
  /\ call[p].existing # NoChat
  /\ ret' = [ret EXCEPT ![p] = call[p].existing]
  /\ call' = [call EXCEPT ![p].existing = NoChat]
  /\ pc' = [pc EXCEPT ![p] = "done"]
  /\ lastOp' = NoOp
  /\ UNCHANGED <<now, mockVars, overlapped, everOverlapped>>
  /\ UNCHANGED <<webVars, authVars, clientVars>>

\* part_009 69, 35-43: createChat([otherUserId], false) up to await db.createChat
CreateChatStep(p) ==
  /\ pc[p] = "awaitFind"
  /\ call[p].existing = NoChat
  /\ mchats' = Append(mchats, NewChat(FALSE))
  /\ mparticipants' = Append(mparticipants, <<>>)
  /\ mmessages' = Append(mmessages, <<>>)
  /\ posted' = Append(posted, <<>>)
  /\ call' = [call EXCEPT ![p].chat = Len(mchats) + 1,
                          ![p].todo = <<call[p].user, call[p].other>>]
  /\ pc' = [pc EXCEPT ![p] = "awaitCreate"]
  /\ lastOp' = NoOp
  /\ UNCHANGED <<now, ret, overlapped, everOverlapped>>
  /\ UNCHANGED <<webVars, authVars, clientVars>>

\* part_009 45-48: one turn of the loop over allParticipants
AddParticipantStep(p) ==
  /\ pc[p] \in {"awaitCreate", "awaitAdd"}
  /\ call[p].todo # <<>>
  /\ LET userId == Head(call[p].todo)
         role == IF userId = call[p].user THEN "admin" ELSE "member"
     IN mparticipants' = addChatParticipant(call[p].chat, userId, role)
  /\ call' = [call EXCEPT ![p].todo = Tail(@)]
  /\ pc' = [pc EXCEPT ![p] = "awaitAdd"]
  /\ lastOp' = NoOp
  /\ UNCHANGED <<now, mchats, mmessages, posted, ret, overlapped, everOverlapped>>
  /\ UNCHANGED <<webVars, authVars, clientVars>>

\* part_009 50: return chat
CreateChatReturn(p) ==
  /\ pc[p] = "awaitAdd"
  /\ call[p].todo = <<>>
  /\ ret' = [ret EXCEPT ![p] = call[p].chat]
  /\ call' = [call EXCEPT ![p].chat = NoChat]
  /\ pc' = [pc EXCEPT ![p] = "done"]
  /\ lastOp' = NoOp
  /\ UNCHANGED <<now, mockVars, overlapped, everOverlapped>>
  /\ UNCHANGED <<webVars, authVars, clientVars>>

\* MockDatabase.createMessage (auth.ts 793-826); it has no await, so it is one step
MockCreateMessage(c, senderId, content, rnd) ==
  /\ c \in 1..Len(mchats)
  /\ MessageCount < MaxMsgs
  /\ <<now, rnd>> \notin AllMessageIds
  /\ LET message == [id |-> <<now, rnd>>, chat_id |-> c, sender_id |-> senderId,
                     content |-> content, created_at |-> now]
     IN /\ mmessages' = PushMessage(c, message)
        /\ posted' = [posted EXCEPT ![c] = Append(@, message.id)]
        /\ mchats' = UpdateLastMessage(c, content, now)
        /\ lastOp' = [NoOp EXCEPT !.op = "createMessage", !.ok = TRUE, !.chat = c,
                        !.message = message,
                        !.wasParticipant = (senderId \in Range(UserIds(c))),
                        !.oldLast = mchats[c].last_message,
                        !.oldLastAt = mchats[c].last_message_at,
                        !.oldCount = Len(mmessages[c])]
  /\ UNCHANGED <<now, mparticipants, procVars>>
  /\ UNCHANGED <<webVars, authVars, clientVars>>

\* the chat hook of part_009 over MockDatabase, every caller and every pair
NextMockChat ==
  \/ \E p \in Procs, user \in Users, other \in Users : FindOrCreateStart(p, user, other)
  \/ \E p \in Procs : FindOrCreateFound(p)
  \/ \E p \in Procs : CreateChatStep(p)
  \/ \E p \in Procs : AddParticipantStep(p)
  \/ \E p \in Procs : CreateChatReturn(p)

SpecMockChat == Init /\ [][NextMockChat]_vars

\* messages of MockDatabase, on chats that one client (u1) opens one after another
NextMockMsg ==
  \/ Tick
  \/ \E other \in Users : FindOrCreateStart("p1", "u1", other)
  \/ FindOrCreateFound("p1")
  \/ CreateChatStep("p1")
  \/ AddParticipantStep("p1")
  \/ CreateChatReturn("p1")
  \/ \E c \in 1..Len(mchats), u \in Users, t \in Contents, r \in Rnd : MockCreateMessage(c, u, t, r)

SpecMockMsg == Init /\ [][NextMockMsg]_vars

\* ------------------------------------------- webDatabase (webDatabase.ts)
\* Map.set(rec.id, rec): a new key goes last, an existing key keeps its place
MapSet(map, rec) ==
  IF \E i \in 1..Len(map) : map[i].id = rec.id
  THEN [i \in 1..Len(map) |-> IF map[i].id = rec.id THEN rec ELSE map[i]]
  ELSE Append(map, rec)

\* WebDatabaseStorage.findManyChats: every chat, whatever `where` says
findManyChats == wchats

\* webDatabase.chat.findFirst: chats[0] || null
chatFindFirst == IF findManyChats = <<>> THEN NoWebChat ELSE findManyChats[1]

\* WebDatabaseStorage.createChat({isGroup, name, participants: {create: [...]}}):
\* the data is spread into the chat object, the id is `chat-${Date.now()}`
webCreateChat(isGroup, participantIds) ==
  [id |-> now, isGroup |-> isGroup, participants |-> participantIds,
   lastMessage |-> NoText, lastMessageAt |-> NoTime]

\* WebDatabaseStorage.createMessage: the id is `msg-${Date.now()}`
webCreateMessage(chatId, senderId, content) ==
  [id |-> now, chatId |-> chatId, senderId |-> senderId, content |-> content,
   createdAt |-> now, isEdited |-> FALSE]

\* WebDatabaseStorage.findManyMessages: every message, whatever `where` says
findManyMessages == wmessages

\* useChats.findOrCreateDirectChat (part_008 92-115): the call of chat.findFirst
WebFindOrCreateStart(p, user, other) ==
  /\ ~Active(p)
  /\ chatFindFirst = NoWebChat => Len(wchats) < MaxChats
  /\ call' = [call EXCEPT ![p] = [NoCall EXCEPT !.user = user, !.other = other,
                                                !.wexisting = chatFindFirst]]
  /\ pc' = [pc EXCEPT ![p] = "wAwaitFind"]
  /\ wret' = [wret EXCEPT ![p] = NoWebChat]
  /\ lastOp' = NoOp
  /\ UNCHANGED <<now, mockVars, ret, overlapped, everOverlapped, wchats, wmessages, authVars, clientVars>>

\* part_008 117-119: if (existingChat) return existingChat
WebFindOrCreateFound(p) ==
  /\ pc[p] = "wAwaitFind"
  /\ call[p].wexisting # NoWebChat
  /\ wret' = [wret EXCEPT ![p] = call[p].wexisting]
  /\ call' = [call EXCEPT ![p].wexisting = NoWebChat]
  /\ pc' = [pc EXCEPT ![p] = "done"]
  /\ lastOp' = NoOp
  /\ UNCHANGED <<now, mockVars, ret, overlapped, everOverlapped, wchats, wmessages, authVars, clientVars>>

\* part_008 122, 58-83: createChat([otherUserId], false) up to await chat.create
WebCreateChatStep(p) ==
  /\ pc[p] = "wAwaitFind"
  /\ call[p].wexisting = NoWebChat
  /\ LET chat == webCreateChat(FALSE, <<call[p].user, call[p].other>>)
     IN /\ wchats' = MapSet(wchats, chat)
        /\ call' = [call EXCEPT ![p].wchat = chat]
  /\ pc' = [pc EXCEPT ![p] = "wAwaitCreate"]
  /\ lastOp' = NoOp
  /\ UNCHANGED <<now, mockVars, ret, overlapped, everOverlapped, wmessages, wret, authVars, clientVars>>

\* part_008 85: return chat
WebCreateChatReturn(p) ==
  /\ pc[p] = "wAwaitCreate"
  /\ wret' = [wret EXCEPT ![p] = call[p].wchat]
  /\ call' = [call EXCEPT ![p].wchat = NoWebChat]
  /\ pc' = [pc EXCEPT ![p] = "done"]
  /\ lastOp' = NoOp
  /\ UNCHANGED <<now, mockVars, ret, overlapped, everOverlapped, wchats, wmessages, authVars, clientVars>>

\* PrismaDatabase.createMessage (jwt.ts 493-515): $transaction runs the callback
\* on webDatabase itself, and tx.message.create stores the message
PrismaCreateMessageInsert(p, chatId, senderId, content) ==
  /\ ~Active(p)
  /\ \E i \in 1..Len(wchats) : wchats[i].id = chatId
  /\ Len(wmessages) < MaxMsgs
  /\ wmessages' = MapSet(wmessages, webCreateMessage(chatId, senderId, content))
  /\ call' = [call EXCEPT ![p] = NoCall]
  /\ pc' = [pc EXCEPT ![p] = "wAwaitInsert"]
  /\ wret' = [wret EXCEPT ![p] = NoWebChat]
  /\ lastOp' = NoOp
  /\ UNCHANGED <<now, mockVars, ret, overlapped, everOverlapped, wchats, authVars, clientVars>>

\* jwt.ts 517-529: tx.chat.update is no function of webDatabase.chat (288-296),
\* the call throws, createMessage rejects and nothing is rolled back
PrismaCreateMessageUpdate(p) ==
  /\ pc[p] = "wAwaitInsert"
  /\ pc' = [pc EXCEPT ![p] = "done"]
  /\ lastOp' = [NoOp EXCEPT !.op = "prismaCreateMessage", !.ok = FALSE]
  /\ UNCHANGED <<now, mockVars, call, ret, overlapped, everOverlapped, webVars, authVars, clientVars>>

\* the chat hook of part_008 over webDatabase, every caller and every pair
NextWebChat ==
  \/ Tick
  \/ \E p \in Procs, user \in Users, other \in Users : WebFindOrCreateStart(p, user, other)
  \/ \E p \in Procs : WebFindOrCreateFound(p)
  \/ \E p \in Procs : WebCreateChatStep(p)
  \/ \E p \in Procs : WebCreateChatReturn(p)

SpecWebChat == Init /\ [][NextWebChat]_vars

\* PrismaDatabase.createMessage over webDatabase, on chats that one client (u1) opens
NextWebMsg ==
  \/ Tick
  \/ \E other \in Users : WebFindOrCreateStart("p1", "u1", other)
  \/ WebFindOrCreateFound("p1")
  \/ WebCreateChatStep("p1")
  \/ WebCreateChatReturn("p1")
  \/ \E p \in Procs, c \in 1..MaxTime, u \in Users, t \in Contents :
       PrismaCreateMessageInsert(p, c, u, t)
  \/ \E p \in Procs : PrismaCreateMessageUpdate(p)

SpecWebMsg == Init /\ [][NextWebMsg]_vars

\* ------------------------------- AuthService (auth.ts 860-1118) on webDatabase
\* the clock of the auth service
AuthTick ==
  /\ now < MaxAuthTime
  /\ now' = now + 1
  /\ lastAuth' = NoAuth
  /\ UNCHANGED <<mockVars, procVars, lastOp, webVars, wusers, wprofiles, wsessions,
                 tokens, signedOut, clientVars>>

\* WebDatabaseStorage.findUserByEmail: the first user with the email
findUserByEmail(email) ==
  LET hits == {i \in 1..Len(wusers) : wusers[i].email = email}
  IN IF hits = {} THEN NoUser ELSE wusers[CHOOSE i \in hits : \A j \in hits : i <= j]

\* WebDatabaseStorage.findUserById: users.get(id) || null
findUserById(id) ==
  LET hits == {i \in 1..Len(wusers) : wusers[i].id = id}
  IN IF hits = {} THEN NoUser ELSE wusers[CHOOSE i \in hits : TRUE]

\* WebDatabaseStorage.findProfileByUsername, as a truth value
findProfileByUsername(username) ==
  \E i \in 1..Len(wprofiles) : wprofiles[i].username = username

\* WebDatabaseStorage.updateProfile(id, {isOnline}): null when there is no profile
updateProfile(id, isOnline) ==
  [i \in 1..Len(wprofiles) |->
     IF wprofiles[i].id = id THEN [wprofiles[i] EXCEPT !.isOnline = isOnline]
     ELSE wprofiles[i]]

\* bcrypt.compare(password, hash)
BcryptCompare(password, hash) == hash # MockHash /\ hash.plain = password

\* AuthService.generateToken: jwt.sign({userId}, secret, {expiresIn: '7d'})
generateToken(userId) == [userId |-> userId, iat |-> now]

\* jwt.verify(token, secret): the signature is ours, so it throws iff exp has come
JwtValid(token) == now < token.iat + TokenTTL

\* WebDatabaseStorage.createSession: data spread, id `session-${Date.now()}`;
\* AuthService passes {userId, tokenHash, expiresAt}, so `token` stays undefined
webCreateSession(userId, tokenHash, expiresAt) ==
  [id |-> now, userId |-> userId, token |-> NoToken, tokenHash |-> tokenHash,
   expiresAt |-> expiresAt]

\* WebDatabaseStorage.findSessionByToken: the first session with session.token === token
findSessionByToken(token) ==
  LET hits == {i \in 1..Len(wsessions) : wsessions[i].token = token}
  IN IF hits = {} THEN NoSession
     ELSE wsessions[CHOOSE i \in hits : \A j \in hits : i <= j]

\* webDatabase.userSession.findFirst: looks at where.token and at nothing else
userSessionFindFirst(where) ==
  IF where.token # NoToken THEN findSessionByToken(where.token) ELSE NoSession

\* PrismaDatabase.getValidSession: findFirst({where: {tokenHash, expiresAt: {gt: now}}})
getValidSession(tokenHash) ==
  userSessionFindFirst([token |-> NoToken, tokenHash |-> tokenHash, expiresAtGt |-> now])

\* a deleteMany that takes no notice of the user
deleteManySessions_All(userId) == SelectSeq(wsessions, LAMBDA x : FALSE)

\* WebDatabaseStorage.deleteManySessions(userId)
deleteManySessions(userId) == SelectSeq(wsessions, LAMBDA x : x.userId # userId)

authFrame == UNCHANGED <<mockVars, ret, overlapped, everOverlapped, lastOp, webVars, clientVars>>

\* how a call of AuthService ends: the caller gets `result`
AuthReturn(p, result) ==
  /\ pc' = [pc EXCEPT ![p] = "done"]
  /\ call' = [call EXCEPT ![p] = NoCall]
  /\ lastAuth' = result

\* a signUp that returns {success: false, error}: what the caller gets, with the
\* e-mail it asked for and the users, profiles and sessions stored when it asked
SignUpFailure(p, error) ==
  [NoAuth EXCEPT !.op = "signUp", !.error = error, !.email = call[p].email,
                 !.before = call[p].before, !.profilesBefore = call[p].profilesBefore,
                 !.usersBefore = call[p].usersBefore]

\* signUp 865-872: the call of user.findUnique({where: {email}})
SignUpStart(p, email, password, username) ==
  /\ ~Active(p)
  /\ Len(wusers) + Cardinality({q \in Procs : pc[q] \in {"suAwaitUser", "suAwaitProfile", "suAwaitHash"}})
       < MaxUsers
  /\ call' = [call EXCEPT ![p] = [NoCall EXCEPT !.email = email, !.password = password,
                                   !.username = username, !.auser = findUserByEmail(email),
                                   !.before = wsessions, !.profilesBefore = wprofiles,
                                   !.usersBefore = wusers]]
  /\ pc' = [pc EXCEPT ![p] = "suAwaitUser"]
  /\ lastAuth' = NoAuth
  /\ UNCHANGED <<now, wusers, wprofiles, wsessions, tokens, signedOut>>
  /\ authFrame

\* signUp 874-879
SignUpEmailTaken(p) ==
  /\ pc[p] = "suAwaitUser"
  /\ call[p].auser # NoUser
  /\ AuthReturn(p, SignUpFailure(p, "User with this email already exists"))
  /\ UNCHANGED <<now, wusers, wprofiles, wsessions, tokens, signedOut>>
  /\ authFrame

\* signUp 881-884: the call of profile.findUnique({where: {username}})
SignUpCheckUsername(p) ==
  /\ pc[p] = "suAwaitUser"
  /\ call[p].auser = NoUser
  /\ call' = [call EXCEPT ![p].taken = findProfileByUsername(call[p].username)]
  /\ pc' = [pc EXCEPT ![p] = "suAwaitProfile"]
  /\ lastAuth' = NoAuth
  /\ UNCHANGED <<now, wusers, wprofiles, wsessions, tokens, signedOut>>
  /\ authFrame

\* signUp 886-891
SignUpUsernameTaken(p) ==
  /\ pc[p] = "suAwaitProfile"
  /\ call[p].taken
  /\ AuthReturn(p, SignUpFailure(p, "Username is already taken"))
  /\ UNCHANGED <<now, wusers, wprofiles, wsessions, tokens, signedOut>>
  /\ authFrame

\* signUp 894: await bcrypt.hash(password, 12)
SignUpHash(p) ==
  /\ pc[p] = "suAwaitProfile"
  /\ ~call[p].taken
  /\ pc' = [pc EXCEPT ![p] = "suAwaitHash"]
  /\ lastAuth' = NoAuth
  /\ UNCHANGED <<now, call, wusers, wprofiles, wsessions, tokens, signedOut>>
  /\ authFrame

\* signUp 897-905: $transaction calls back with webDatabase, tx.user.create stores
\* the user under `user-${Date.now()}`
SignUpCreateUser(p, salt) ==
  /\ pc[p] = "suAwaitHash"
  /\ wusers' = MapSet(wusers, [id |-> now, email |-> call[p].email,
                               passwordHash |-> BcryptHash(call[p].password, salt)])
  /\ pc' = [pc EXCEPT ![p] = "suAwaitCreate"]
  /\ lastAuth' = NoAuth
  /\ UNCHANGED <<now, call, wprofiles, wsessions, tokens, signedOut>>
  /\ authFrame

\* signUp 908-915, 941-947: tx.profile.create is no function of webDatabase.profile
\* (262-286), the call throws and the catch returns 'Failed to create account'
SignUpProfileThrows(p) ==
  /\ pc[p] = "suAwaitCreate"
  /\ AuthReturn(p, SignUpFailure(p, "Failed to create account"))
  /\ UNCHANGED <<now, wusers, wprofiles, wsessions, tokens, signedOut>>
  /\ authFrame

\* a signIn that returns {success: false, error}: what the caller gets, with the
\* e-mail it asked for and the sessions and profiles stored when it asked
SignInFailure(p, error) ==
  [NoAuth EXCEPT !.op = "signIn", !.error = error, !.email = call[p].email,
                 !.before = call[p].before, !.profilesBefore = call[p].profilesBefore]

\* signIn 951-957: the call of user.findUnique({where: {email}})
SignInStart(p, email, password) ==
  /\ ~Active(p)
  /\ call' = [call EXCEPT ![p] = [NoCall EXCEPT !.email = email, !.password = password,
                                   !.auser = findUserByEmail(email),
                                   !.before = wsessions, !.profilesBefore = wprofiles]]
  /\ pc' = [pc EXCEPT ![p] = "siAwaitUser"]
  /\ lastAuth' = NoAuth
  /\ UNCHANGED <<now, wusers, wprofiles, wsessions, tokens, signedOut>>
  /\ authFrame

\* signIn 959-964: what `if (!user)` returns
SignInNoUserResult_UserNotFound(p) == SignInFailure(p, "User not found")
SignInNoUserResult(p) == SignInFailure(p, "Invalid email or password")

SignInNoUser(p) ==
  /\ pc[p] = "siAwaitUser"
  /\ call[p].auser = NoUser
  /\ AuthReturn(p, SignInNoUserResult(p))
  /\ UNCHANGED <<now, wusers, wprofiles, wsessions, tokens, signedOut>>
  /\ authFrame

\* signIn 967: await bcrypt.compare(password, user.passwordHash)
SignInCompare(p) ==
  /\ pc[p] = "siAwaitUser"
  /\ call[p].auser # NoUser
  /\ pc' = [pc EXCEPT ![p] = "siAwaitCompare"]
  /\ lastAuth' = NoAuth
  /\ UNCHANGED <<now, call, wusers, wprofiles, wsessions, tokens, signedOut>>
  /\ authFrame

\* signIn 968-973
SignInBadPassword(p) ==
  /\ pc[p] = "siAwaitCompare"
  /\ ~BcryptCompare(call[p].password, call[p].auser.passwordHash)
  /\ AuthReturn(p, SignInFailure(p, "Invalid email or password"))
  /\ UNCHANGED <<now, wusers, wprofiles, wsessions, tokens, signedOut>>
  /\ authFrame

\* signIn 976-983: the token, expiresAt, and await bcrypt.hash(token, 10)
SignInToken(p) ==
  /\ pc[p] = "siAwaitCompare"
  /\ BcryptCompare(call[p].password, call[p].auser.passwordHash)
  /\ Cardinality(tokens) + Cardinality({q \in Procs : pc[q] \in {"siAwaitHash", "siAwaitSession"}})
       < MaxTokens
  /\ call' = [call EXCEPT ![p].token = generateToken(call[p].auser.id),
                          ![p].expiresAt = now + SessionTTL]
  /\ pc' = [pc EXCEPT ![p] = "siAwaitHash"]
  /\ lastAuth' = NoAuth
  /\ UNCHANGED <<now, wusers, wprofiles, wsessions, tokens, signedOut>>
  /\ authFrame

\* signIn 980-986: userSession.create stores the session under `session-${Date.now()}`
SignInStoreSession(p, salt) ==
  /\ pc[p] = "siAwaitHash"
  /\ wsessions' = MapSet(wsessions, webCreateSession(call[p].auser.id,
                           BcryptHash(call[p].token, salt), call[p].expiresAt))
  /\ pc' = [pc EXCEPT ![p] = "siAwaitSession"]
  /\ lastAuth' = NoAuth
  /\ UNCHANGED <<now, call, wusers, wprofiles, tokens, signedOut>>
  /\ authFrame

\* signIn 989-1006: findUserByEmail gives a user without `profile`, so the
\* online status is left alone; the caller gets the token
SignInReturn(p) ==
  /\ pc[p] = "siAwaitSession"
  /\ tokens' = tokens \cup {call[p].token}
  /\ AuthReturn(p, [NoAuth EXCEPT !.op = "signIn", !.ok = TRUE, !.token = call[p].token])
  /\ UNCHANGED <<now, wusers, wprofiles, wsessions, signedOut>>
  /\ authFrame

\* AuthService.verifyToken (1017-1031): jwt.verify, then user.findUnique by id
VerifyToken(token) ==
  /\ token \in tokens
  /\ lastAuth' = [NoAuth EXCEPT !.op = "verifyToken", !.token = token,
                    !.ok = (JwtValid(token) /\ findUserById(token.userId) # NoUser)]
  /\ UNCHANGED <<now, pc, call, wusers, wprofiles, wsessions, tokens, signedOut>>
  /\ authFrame

\* AuthService.signOut (1034-1057): jwt.verify, userSession.deleteMany({where:
\* {userId}}), profile.update({isOnline: false}); false when jwt.verify throws
SignOut(token) ==
  /\ token \in tokens
  /\ IF JwtValid(token)
     THEN /\ wsessions' = deleteManySessions(token.userId)
          /\ wprofiles' = updateProfile(token.userId, FALSE)
          /\ signedOut' = signedOut \cup {token}
          /\ lastAuth' = [NoAuth EXCEPT !.op = "signOut", !.ok = TRUE, !.token = token,
                            !.before = wsessions]
     ELSE /\ lastAuth' = [NoAuth EXCEPT !.op = "signOut", !.token = token,
                            !.before = wsessions]
          /\ UNCHANGED <<wsessions, wprofiles, signedOut>>
  /\ UNCHANGED <<now, pc, call, wusers, tokens>>
  /\ authFrame

\* the token hashes a caller can present: those stored, and fresh hashes of its tokens
KnownHashes ==
  {wsessions[i].tokenHash : i \in 1..Len(wsessions)}
    \cup {BcryptHash(t, salt) : t \in tokens, salt \in Salts}

\* PrismaDatabase.getValidSession(tokenHash) (jwt.ts 573-582)
GetValidSession(tokenHash) ==
  /\ tokenHash \in KnownHashes
  /\ lastAuth' = [NoAuth EXCEPT !.op = "getValidSession", !.hash = tokenHash,
                    !.session = getValidSession(tokenHash),
                    !.ok = (getValidSession(tokenHash) # NoSession)]
  /\ UNCHANGED <<now, pc, call, wusers, wprofiles, wsessions, tokens, signedOut>>
  /\ authFrame

\* webDatabase.userSession.findFirst({where: {token}}) (webDatabase.ts 322-325)
FindSessionByToken(token) ==
  /\ token \in tokens
  /\ lastAuth' = [NoAuth EXCEPT !.op = "findFirst", !.token = token,
                    !.session = userSessionFindFirst([token |-> token]),
                    !.ok = (userSessionFindFirst([token |-> token]) # NoSession)]
  /\ UNCHANGED <<now, pc, call, wusers, wprofiles, wsessions, tokens, signedOut>>
  /\ authFrame

\* the auth flows are driven by one client, which asks for one thing at a time
AuthProcs == {"p1"}
Quiet == \A p \in Procs : ~Active(p)

NextAuth ==
  \/ AuthTick
  \/ \E p \in AuthProcs, e \in Emails, w \in Passwords, n \in Usernames : SignUpStart(p, e, w, n)
  \/ \E p \in AuthProcs : SignUpEmailTaken(p)
  \/ \E p \in AuthProcs : SignUpCheckUsername(p)
  \/ \E p \in AuthProcs : SignUpUsernameTaken(p)
  \/ \E p \in AuthProcs : SignUpHash(p)
  \/ \E p \in AuthProcs, salt \in PasswordSalts : SignUpCreateUser(p, salt)
  \/ \E p \in AuthProcs : SignUpProfileThrows(p)
  \/ \E p \in AuthProcs, e \in Emails, w \in Passwords : SignInStart(p, e, w)
  \/ \E p \in AuthProcs : SignInNoUser(p)
  \/ \E p \in AuthProcs : SignInCompare(p)
  \/ \E p \in AuthProcs : SignInBadPassword(p)
  \/ \E p \in AuthProcs : SignInToken(p)
  \/ \E p \in AuthProcs, salt \in Salts : SignInStoreSession(p, salt)
  \/ \E p \in AuthProcs : SignInReturn(p)
  \/ Quiet /\ \E t \in tokens : VerifyToken(t)
  \/ Quiet /\ \E t \in tokens : SignOut(t)
  \/ Quiet /\ \E h \in KnownHashes : GetValidSession(h)
  \/ Quiet /\ \E t \in tokens : FindSessionByToken(t)

SpecAuth == Init /\ [][NextAuth]_vars

\* ------------------------------- the expiry sweep
\* webDatabase.userSession.deleteMany(options) (webDatabase.ts 337-340): hands
\* options.where.userId to deleteManySessions, whatever else `where` holds
userSessionDeleteMany(where) == deleteManySessions(where.userId)

\* AuthService.cleanExpiredSessions (auth.ts 1069-1081) and
\* PrismaDatabase.cleanupExpiredSessions (jwt.ts 605-613):
\* userSession.deleteMany({where: {expiresAt: {lt: new Date()}}}); the `where`
\* has no userId, so the id handed on is undefined
CleanExpiredSessions ==
  /\ wsessions' = userSessionDeleteMany([userId |-> NoUser.id, expiresAtLt |-> now])
  /\ lastAuth' = [NoAuth EXCEPT !.op = "cleanExpiredSessions", !.ok = TRUE,
                    !.before = wsessions]
  /\ UNCHANGED <<now, pc, call, wusers, wprofiles, tokens, signedOut>>
  /\ authFrame

\* the clock, run far enough for a stored session to lie in the past
SweepTick ==
  /\ now < MaxSweepTime
  /\ now' = now + 1
  /\ lastAuth' = NoAuth
  /\ UNCHANGED <<mockVars, procVars, lastOp, webVars, wusers, wprofiles, wsessions,
                 tokens, signedOut, clientVars>>

\* the sweep and the lookup run at any moment, also between two steps of a
\* sign-up or a sign-in in flight
NextSweep ==
  \/ SweepTick
  \/ \E p \in AuthProcs, e \in Emails, w \in Passwords, n \in Usernames : SignUpStart(p, e, w, n)
  \/ \E p \in AuthProcs : SignUpEmailTaken(p)
  \/ \E p \in AuthProcs : SignUpCheckUsername(p)
  \/ \E p \in AuthProcs : SignUpUsernameTaken(p)
  \/ \E p \in AuthProcs : SignUpHash(p)
  \/ \E p \in AuthProcs, salt \in PasswordSalts : SignUpCreateUser(p, salt)
  \/ \E p \in AuthProcs : SignUpProfileThrows(p)
  \/ \E p \in AuthProcs, e \in Emails, w \in Passwords : SignInStart(p, e, w)
  \/ \E p \in AuthProcs : SignInNoUser(p)
  \/ \E p \in AuthProcs : SignInCompare(p)
  \/ \E p \in AuthProcs : SignInBadPassword(p)
  \/ \E p \in AuthProcs : SignInToken(p)
  \/ \E p \in AuthProcs, salt \in Salts : SignInStoreSession(p, salt)
  \/ \E p \in AuthProcs : SignInReturn(p)
  \/ CleanExpiredSessions
  \/ \E h \in KnownHashes : GetValidSession(h)

SpecSweep == Init /\ [][NextSweep]_vars

\* ------------------------------- sign-ups in flight together
\* two clients sign up at the same time; their calls interleave at the awaits
NextSignUp ==
  \/ AuthTick
  \/ \E p \in Procs, e \in Emails, w \in Passwords, n \in Usernames : SignUpStart(p, e, w, n)
  \/ \E p \in Procs : SignUpEmailTaken(p)
  \/ \E p \in Procs : SignUpCheckUsername(p)
  \/ \E p \in Procs : SignUpUsernameTaken(p)
  \/ \E p \in Procs : SignUpHash(p)
  \/ \E p \in Procs, salt \in PasswordSalts : SignUpCreateUser(p, salt)
  \/ \E p \in Procs : SignUpProfileThrows(p)

SpecSignUp == Init /\ [][NextSignUp]_vars

\* ------------------------------- JWTUtils (jwt.ts 13-71)
\* the user ids, e-mail addresses and lifetimes (hours) tokens are made for
JwtUserIds == {<<Chr("user-1")>>, <<Chr("user-2")>>}
JwtEmails == {<<Chr("a@x"), Dot, Chr("com")>>}
Ttls == {1, 2}

\* btoa: every character becomes base64 digits, none of which is "."
Btoa_Plain(str) == str
Btoa(str) == [i \in 1..Len(str) |-> [str[i] EXCEPT !.b64 = TRUE]]

\* atob: throws on a character that is no base64 digit
AtobThrows(str) == \E i \in 1..Len(str) : ~str[i].b64
Atob(str) == [i \in 1..Len(str) |-> [str[i] EXCEPT !.b64 = FALSE]]

\* JSON.stringify(payload) and JSON.parse; the punctuation of JSON cannot occur
\* inside a value, its quoting sees to that
JsonStringify(payload) ==
  <<Chr("{userId:")>> \o payload.userId \o <<Chr(",email:")>> \o payload.email
    \o <<Chr(",iat:"), Num(payload.iat), Chr(",exp:"), Num(payload.exp), Chr("}")>>

EmailKeyAt(str) == {i \in 1..Len(str) : str[i] = Chr(",email:")}

JsonParseThrows(str) ==
  \/ Len(str) < 7
  \/ str[1] # Chr("{userId:")
  \/ EmailKeyAt(str) = {}
  \/ str[Len(str)] # Chr("}")
  \/ str[Len(str) - 2] # Chr(",exp:")
  \/ str[Len(str) - 4] # Chr(",iat:")

JsonParse(str) ==
  LET k == CHOOSE i \in EmailKeyAt(str) : \A j \in EmailKeyAt(str) : i <= j
  IN [userId |-> SubSeq(str, 2, k - 1),
      email |-> SubSeq(str, k + 1, Len(str) - 5),
      iat |-> str[Len(str) - 3].n,
      exp |-> str[Len(str) - 1].n]

Header == <<Chr("{alg:HS256,typ:JWT}")>>
JwtSecret == <<Chr("secret")>>

\* JWTUtils.encode (17-24)
encode(payload) ==
  LET encodedHeader == Btoa(Header)
      encodedPayload == Btoa(JsonStringify(payload))
      signature == Btoa(encodedHeader \o <<Dot>> \o encodedPayload \o <<Dot>> \o JwtSecret)
  IN encodedHeader \o <<Dot>> \o encodedPayload \o <<Dot>> \o signature

\* token.split('.')
RECURSIVE Split(_)
Split(str) ==
  LET dots == {i \in 1..Len(str) : str[i] = Dot}
  IN IF dots = {} THEN <<str>>
     ELSE LET d == CHOOSE i \in dots : \A j \in dots : i <= j
          IN <<SubSeq(str, 1, d - 1)>> \o Split(SubSeq(str, d + 1, Len(str)))

\* Math.floor(Date.now() / 1000)
NowSeconds == now \div TicksPerSecond

\* Date.now() >= payload.exp * 1000 (the `payload.exp &&` lets exp 0 through)
ExpiredAt(payload) == payload.exp # 0 /\ now >= payload.exp * TicksPerSecond

\* what is thrown inside the try of JWTUtils.decode (27-39), "none" if nothing
DecodeThrown(token) ==
  LET parts == Split(token)
  IN IF Len(parts) # 3 THEN "Invalid token format"
     ELSE IF AtobThrows(parts[2]) THEN "InvalidCharacterError"
     ELSE IF JsonParseThrows(Atob(parts[2])) THEN "SyntaxError"
     ELSE IF ExpiredAt(JsonParse(Atob(parts[2]))) THEN "Token expired"
     ELSE "none"

\* JWTUtils.decode (26-44): the catch turns whatever was thrown into 'Invalid token'
decode(token) ==
  IF DecodeThrown(token) = "none"
  THEN [ok |-> TRUE, error |-> "none", payload |-> JsonParse(Atob(Split(token)[2]))]
  ELSE [ok |-> FALSE, error |-> "Invalid token", payload |-> NoPayload]

\* JWTUtils.createToken (55-65)
createToken(userId, email, expiresInHours) ==
  encode([userId |-> userId, email |-> email, iat |-> NowSeconds,
          exp |-> NowSeconds + expiresInHours * SecondsPerHour])

jwtFrame == UNCHANGED <<mockVars, procVars, lastOp, webVars, authVars, hookVars, useAuthVars, pollVars>>

JwtTick ==
  /\ now < MaxJwtTime
  /\ now' = now + 1
  /\ lastJwt' = NoJwt
  /\ UNCHANGED jissued
  /\ jwtFrame

\* a call of JWTUtils.createToken
CreateToken(userId, email, expiresInHours) ==
  /\ Cardinality(jissued) < MaxIssued
  /\ jissued' = jissued \cup {[token |-> createToken(userId, email, expiresInHours),
                               userId |-> userId,
                               exp |-> NowSeconds + expiresInHours * SecondsPerHour]}
  /\ lastJwt' = [NoJwt EXCEPT !.op = "createToken", !.ok = TRUE,
                   !.newToken = createToken(userId, email, expiresInHours)]
  /\ UNCHANGED now
  /\ jwtFrame

\* a token cut after its second part: structurally invalid
Truncated(token) == Split(token)[1] \o <<Dot>> \o Split(token)[2]

\* the tokens a client can present: those made for it, whole or cut short
Presentable == {t.token : t \in jissued} \cup {Truncated(t.token) : t \in jissued}

\* whether the presented token is one of ours whose exp has come
IssuedExpired(token) ==
  \E t \in jissued : t.token = token /\ now >= t.exp * TicksPerSecond

\* a call of JWTUtils.decode
Decode(token) ==
  /\ lastJwt' = [NoJwt EXCEPT !.op = "decode", !.token = token,
                   !.ok = decode(token).ok, !.error = decode(token).error,
                   !.payload = decode(token).payload,
                   !.expired = IssuedExpired(token),
                   !.wellFormed = (token \in {t.token : t \in jissued})]
  /\ UNCHANGED <<now, jissued>>
  /\ jwtFrame

\* JWTUtils.refreshToken (67-70): decode, then createToken for the same user
RefreshToken(token, expiresInHours) ==
  /\ Cardinality(jissued) < MaxIssued
  /\ IF decode(token).ok
     THEN LET payload == decode(token).payload
              fresh == createToken(payload.userId, payload.email, expiresInHours)
          IN /\ jissued' = jissued \cup {[token |-> fresh, userId |-> payload.userId,
                                          exp |-> NowSeconds + expiresInHours * SecondsPerHour]}
             /\ lastJwt' = [NoJwt EXCEPT !.op = "refreshToken", !.ok = TRUE,
                              !.token = token, !.newToken = fresh, !.payload = payload,
                              !.wellFormed = (token \in {t.token : t \in jissued})]
     ELSE /\ lastJwt' = [NoJwt EXCEPT !.op = "refreshToken", !.token = token,
                           !.error = decode(token).error,
                           !.expired = IssuedExpired(token),
                           !.wellFormed = (token \in {t.token : t \in jissued})]
          /\ UNCHANGED jissued
  /\ UNCHANGED now
  /\ jwtFrame

NextJwt ==
  \/ JwtTick
  \/ \E u \in JwtUserIds, e \in JwtEmails, h \in Ttls : CreateToken(u, e, h)
  \/ \E t \in Presentable : Decode(t)
  \/ \E t \in Presentable, h \in Ttls : RefreshToken(t, h)

SpecJwt == Init /\ [][NextJwt]_vars

\* ------------------------------- useAuth over AuthService (useAuth.ts 13-158)
\* A call of AuthService made by the hook is taken as one step, at the moment
\* its answer reaches the hook: what the hook does between two of its own awaits
\* is one action.
useAuthFrame == UNCHANGED <<mockVars, procVars, lastOp, webVars, jwtVars, hookVars, pollVars>>

HookQuiet == \A k \in DOMAIN apc : apc[k] = "idle"

\* the clock of the client; a tick is days long (TokenTTL ticks are 7 days), so
\* it passes between the calls of the hook, not while one of them is in flight
ClientTick ==
  /\ now < MaxAuthTime
  /\ HookQuiet
  /\ now' = now + 1
  /\ lastHook' = NoHook
  /\ lastAuth' = NoAuth
  /\ UNCHANGED <<wusers, wprofiles, wsessions, tokens, signedOut>>
  /\ UNCHANGED <<hookSession, hookUser, storage, apc, alocal>>
  /\ useAuthFrame

\* the app is started again: the hook mounts with fresh state and runs
\* initializeAuth (18-20); AsyncStorage is what the last run left
Restart ==
  /\ HookQuiet
  /\ hookSession' = NoToken
  /\ hookUser' = NoUser.id
  /\ apc' = [apc EXCEPT !.init = "getItem"]
  /\ alocal' = NoLocals
  /\ lastHook' = NoHook
  /\ lastAuth' = NoAuth
  /\ UNCHANGED <<now, storage, wusers, wprofiles, wsessions, tokens, signedOut>>
  /\ useAuthFrame

\* initializeAuth 25-27: AsyncStorage.getItem(TOKEN) has answered; without a
\* token the call ends, with one AuthService.verifyToken is called
InitializeAuthRead ==
  /\ apc.init = "getItem"
  /\ alocal' = [alocal EXCEPT !.storedToken = storage.token]
  /\ apc' = [apc EXCEPT !.init = IF storage.token = NoToken THEN "idle" ELSE "verify"]
  /\ lastHook' = NoHook
  /\ lastAuth' = NoAuth
  /\ UNCHANGED <<now, hookSession, hookUser, storage, wusers, wprofiles, wsessions, tokens, signedOut>>
  /\ useAuthFrame

\* AuthService.verifyToken (auth.ts 1017-1031), as a truth value
verifyToken(token) == JwtValid(token) /\ findUserById(token.userId) # NoUser

\* initializeAuth 29-44: verifyToken has answered; a user is put into the
\* state and setItem(USER) is called, no user leads to clearSession
InitializeAuthVerified ==
  /\ apc.init = "verify"
  /\ IF verifyToken(alocal.storedToken)
     THEN /\ hookSession' = alocal.storedToken
          /\ hookUser' = alocal.storedToken.userId
          /\ apc' = [apc EXCEPT !.init = "setUser"]
     ELSE /\ apc' = [apc EXCEPT !.init = "clear"]
          /\ UNCHANGED <<hookSession, hookUser>>
  /\ lastHook' = NoHook
  /\ lastAuth' = NoAuth
  /\ UNCHANGED <<now, storage, alocal, wusers, wprofiles, wsessions, tokens, signedOut>>
  /\ useAuthFrame

\* initializeAuth 40: AsyncStorage.setItem(USER, ...) is carried out
InitializeAuthStoreUser ==
  /\ apc.init = "setUser"
  /\ storage' = [storage EXCEPT !.user = alocal.storedToken.userId]
  /\ apc' = [apc EXCEPT !.init = "idle"]
  /\ lastHook' = NoHook
  /\ lastAuth' = NoAuth
  /\ UNCHANGED <<now, hookSession, hookUser, alocal, wusers, wprofiles, wsessions, tokens, signedOut>>
  /\ useAuthFrame

\* clearSession 55, called by initializeAuth: multiRemove([TOKEN, USER]) is
\* carried out
InitializeAuthRemove ==
  /\ apc.init = "clear"
  /\ storage' = NoStorage
  /\ apc' = [apc EXCEPT !.init = "cleared"]
  /\ lastHook' = [NoHook EXCEPT !.op = "initializeAuth.multiRemove",
                                !.removed = storage.token, !.stored = alocal.storedToken]
  /\ lastAuth' = NoAuth
  /\ UNCHANGED <<now, hookSession, hookUser, alocal, wusers, wprofiles, wsessions, tokens, signedOut>>
  /\ useAuthFrame

\* clearSession 56-57, called by initializeAuth: setSession(null), setUser(null)
InitializeAuthCleared ==
  /\ apc.init = "cleared"
  /\ hookSession' = NoToken
  /\ hookUser' = NoUser.id
  /\ apc' = [apc EXCEPT !.init = "idle"]
  /\ lastHook' = [NoHook EXCEPT !.op = "initializeAuth.clearSession",
                                !.cleared = hookSession, !.stored = alocal.storedToken]
  /\ lastAuth' = NoAuth
  /\ UNCHANGED <<now, storage, alocal, wusers, wprofiles, wsessions, tokens, signedOut>>
  /\ useAuthFrame

\* useAuth.signUp (60-74) to its end: AuthService.signUp stores the user and
\* fails at the profile, so result.success is false and the hook sets nothing
HookSignUp(email, password, username) ==
  /\ findUserByEmail(email) = NoUser
  /\ ~findProfileByUsername(username)
  /\ Len(wusers) < MaxUsers
  /\ wusers' = MapSet(wusers, [id |-> now, email |-> email,
                               passwordHash |-> BcryptHash(password, 0)])
  /\ lastHook' = NoHook
  /\ lastAuth' = NoAuth
  /\ UNCHANGED <<now, wprofiles, wsessions, tokens, signedOut>>
  /\ UNCHANGED <<hookSession, hookUser, storage, apc, alocal>>
  /\ useAuthFrame

\* useAuth.signIn 76-77: AuthService.signIn(email, password) is called
HookSignInCall(email, password) ==
  /\ apc.signIn = "idle"
  /\ Cardinality(tokens) < MaxTokens
  /\ apc' = [apc EXCEPT !.signIn = "server"]
  /\ alocal' = [alocal EXCEPT !.email = email, !.password = password,
                              !.outOverlapped = (@ \/ apc.signOut # "idle")]
  /\ lastHook' = NoHook
  /\ lastAuth' = NoAuth
  /\ UNCHANGED <<now, hookSession, hookUser, storage, wusers, wprofiles, wsessions, tokens, signedOut>>
  /\ useAuthFrame

\* signIn 79-84: AuthService.signIn (auth.ts 951-1014) has answered; on success
\* setSession, setUser, and setItem(TOKEN) is called
HookSignInResult ==
  /\ apc.signIn = "server"
  /\ LET found == findUserByEmail(alocal.email)
         token == generateToken(found.id)
     IN IF found # NoUser /\ BcryptCompare(alocal.password, found.passwordHash)
        THEN /\ wsessions' = MapSet(wsessions, webCreateSession(found.id,
                                      BcryptHash(token, 0), now + SessionTTL))
             /\ tokens' = tokens \cup {token}
             /\ hookSession' = token
             /\ hookUser' = found.id
             /\ alocal' = [alocal EXCEPT !.token = token]
             /\ apc' = [apc EXCEPT !.signIn = "setToken"]
        ELSE /\ apc' = [apc EXCEPT !.signIn = "idle"]
             /\ UNCHANGED <<wsessions, tokens, hookSession, hookUser, alocal>>
  /\ lastHook' = NoHook
  /\ lastAuth' = NoAuth
  /\ UNCHANGED <<now, storage, wusers, wprofiles, signedOut>>
  /\ useAuthFrame

\* signIn 83: AsyncStorage.setItem(TOKEN, result.data.token) is carried out
HookSignInStoreToken ==
  /\ apc.signIn = "setToken"
  /\ storage' = [storage EXCEPT !.token = alocal.token]
  /\ apc' = [apc EXCEPT !.signIn = "setUser"]
  /\ lastHook' = NoHook
  /\ lastAuth' = NoAuth
  /\ UNCHANGED <<now, hookSession, hookUser, alocal, wusers, wprofiles, wsessions, tokens, signedOut>>
  /\ useAuthFrame

\* signIn 84-95: setItem(USER, ...) is carried out, then the remember-me
\* entries, which are other keys, and the call returns
HookSignInStoreUser ==
  /\ apc.signIn = "setUser"
  /\ storage' = [storage EXCEPT !.user = alocal.token.userId]
  /\ apc' = [apc EXCEPT !.signIn = "idle"]
  /\ lastHook' = [NoHook EXCEPT !.op = "signIn", !.serverOk = TRUE]
  /\ lastAuth' = NoAuth
  /\ UNCHANGED <<now, hookSession, hookUser, alocal, wusers, wprofiles, wsessions, tokens, signedOut>>
  /\ useAuthFrame

\* useAuth.signOut 100-104: with a session AuthService.signOut(session.token)
\* is called, without one clearSession at once
HookSignOutCall ==
  /\ apc.signOut = "idle"
  /\ apc' = [apc EXCEPT !.signOut = IF hookSession # NoToken THEN "server" ELSE "clear"]
  /\ alocal' = [alocal EXCEPT !.outToken = hookSession,
                              !.outOverlapped = (apc.init # "idle" \/ apc.signIn # "idle")]
  /\ lastHook' = NoHook
  /\ lastAuth' = NoAuth
  /\ UNCHANGED <<now, hookSession, hookUser, storage, wusers, wprofiles, wsessions, tokens, signedOut>>
  /\ useAuthFrame

\* a signOut of AuthService that lets the error of jwt.verify out
signOutRejects_Expired(token) == ~JwtValid(token)

\* AuthService.signOut (auth.ts 1034-1057) catches every error and returns
\* false: its promise never rejects
signOutRejects(token) == FALSE

\* signOut 102-104: AuthService.signOut has answered, true or false, and
\* clearSession is called; a rejection would end useAuth.signOut here
HookSignOutServer ==
  /\ apc.signOut = "server"
  /\ IF JwtValid(alocal.outToken)
     THEN /\ wsessions' = deleteManySessions(alocal.outToken.userId)
          /\ wprofiles' = updateProfile(alocal.outToken.userId, FALSE)
          /\ signedOut' = signedOut \cup {alocal.outToken}
     ELSE UNCHANGED <<wsessions, wprofiles, signedOut>>
  /\ lastAuth' = [NoAuth EXCEPT !.op = "signOut", !.ok = JwtValid(alocal.outToken),
                                !.token = alocal.outToken, !.before = wsessions]
  /\ IF signOutRejects(alocal.outToken)
     THEN /\ apc' = [apc EXCEPT !.signOut = "idle"]
          /\ lastHook' = [NoHook EXCEPT !.op = "signOut", !.hadToken = TRUE,
                                        !.overlapped = alocal.outOverlapped]
     ELSE /\ apc' = [apc EXCEPT !.signOut = "clear"]
          /\ lastHook' = NoHook
  /\ UNCHANGED <<now, hookSession, hookUser, storage, alocal, wusers, tokens>>
  /\ useAuthFrame

\* clearSession 55, called by signOut: multiRemove([TOKEN, USER]) is carried out
HookSignOutRemove ==
  /\ apc.signOut = "clear"
  /\ storage' = NoStorage
  /\ apc' = [apc EXCEPT !.signOut = "cleared"]
  /\ lastHook' = NoHook
  /\ lastAuth' = NoAuth
  /\ UNCHANGED <<now, hookSession, hookUser, alocal, wusers, wprofiles, wsessions, tokens, signedOut>>
  /\ useAuthFrame

\* clearSession 56-57, called by signOut: setSession(null), setUser(null), and
\* useAuth.signOut returns
HookSignOutCleared ==
  /\ apc.signOut = "cleared"
  /\ hookSession' = NoToken
  /\ hookUser' = NoUser.id
  /\ apc' = [apc EXCEPT !.signOut = "idle"]
  /\ lastHook' = [NoHook EXCEPT !.op = "signOut",
                                !.hadToken = (alocal.outToken # NoToken),
                                !.serverOk = (alocal.outToken \in signedOut),
                                !.overlapped = alocal.outOverlapped]
  /\ lastAuth' = NoAuth
  /\ UNCHANGED <<now, storage, alocal, wusers, wprofiles, wsessions, tokens, signedOut>>
  /\ useAuthFrame

\* one client of useAuth: one account, right and wrong passwords
NextUseAuth ==
  \/ ClientTick
  \/ Restart
  \/ InitializeAuthRead
  \/ InitializeAuthVerified
  \/ InitializeAuthStoreUser
  \/ InitializeAuthRemove
  \/ InitializeAuthCleared
  \/ HookSignUp("a@x.com", "secret1", "alice")
  \/ \E w \in Passwords : HookSignInCall("a@x.com", w)
  \/ HookSignInResult
  \/ HookSignInStoreToken
  \/ HookSignInStoreUser
  \/ HookSignOutCall
  \/ HookSignOutServer
  \/ HookSignOutRemove
  \/ HookSignOutCleared

SpecUseAuth == Init /\ [][NextUseAuth]_vars

\* ------------------------------- messages of webDatabase: send, edit, delete, list
\* webDb.messages.get(id)
HasMessage(id) == \E i \in 1..Len(wmessages) : wmessages[i].id = id
MessageById(id) == wmessages[CHOOSE i \in 1..Len(wmessages) : wmessages[i].id = id]

\* webDatabase.message.update (webDatabase.ts 302-308):
\* messages.set(id, {...message, ...data, updatedAt})
messageUpdate(id, content) ==
  IF HasMessage(id)
  THEN MapSet(wmessages, [MessageById(id) EXCEPT !.content = content, !.isEdited = TRUE])
  ELSE wmessages

\* webDatabase.message.delete (webDatabase.ts 309-316): messages.delete(id)
messageDelete(id) == SelectSeq(wmessages, LAMBDA m : m.id # id)

\* useChats.createChat (part_008 58-83) called by a client of the hook: up to
\* await prisma.chat.create, with allParticipants = [user.id, ...participantIds]
WebCreateChatCall(p, user, participantIds, isGroup) ==
  /\ ~Active(p)
  /\ Len(wchats) < MaxChats
  /\ LET chat == webCreateChat(isGroup, <<user>> \o participantIds)
     IN /\ wchats' = MapSet(wchats, chat)
        /\ call' = [call EXCEPT ![p] = [NoCall EXCEPT !.user = user, !.wchat = chat]]
  /\ pc' = [pc EXCEPT ![p] = "wAwaitCreate"]
  /\ wret' = [wret EXCEPT ![p] = NoWebChat]
  /\ lastOp' = NoOp
  /\ UNCHANGED <<now, mockVars, ret, overlapped, everOverlapped, wmessages, authVars, clientVars>>

\* useMessages.sendMessage (useAuth.ts 327-341): prisma.message.create for the
\* chat the hook is mounted on, by the signed-in user
HookSendMessage(chatId, user, content) ==
  /\ \E i \in 1..Len(wchats) : wchats[i].id = chatId
  /\ Len(wmessages) < MaxMsgs
  /\ wmessages' = MapSet(wmessages, webCreateMessage(chatId, user, content))
  /\ lastOp' = [NoOp EXCEPT !.op = "messageCreate", !.ok = TRUE, !.chat = chatId,
                            !.user = user, !.target = now, !.wbefore = wmessages]
  /\ UNCHANGED <<now, mockVars, procVars, wchats, wret, authVars, clientVars>>

\* PrismaDatabase.updateMessage(messageId, content) (jwt.ts 532-550), requested
\* by `user`; the call has no parameter for who asks
PrismaUpdateMessage(user, messageId, content) ==
  /\ wmessages' = messageUpdate(messageId, content)
  /\ lastOp' = [NoOp EXCEPT !.op = "updateMessage", !.ok = HasMessage(messageId),
                            !.user = user, !.target = messageId, !.wbefore = wmessages]
  /\ UNCHANGED <<now, mockVars, procVars, wchats, wret, authVars, clientVars>>

\* PrismaDatabase.deleteMessage(messageId) (jwt.ts 552-556), requested by `user`
PrismaDeleteMessage(user, messageId) ==
  /\ wmessages' = messageDelete(messageId)
  /\ lastOp' = [NoOp EXCEPT !.op = "deleteMessage", !.ok = HasMessage(messageId),
                            !.user = user, !.target = messageId, !.wbefore = wmessages]
  /\ UNCHANGED <<now, mockVars, procVars, wchats, wret, authVars, clientVars>>

\* fetchMessages of useMessages(chatId) (useAuth.ts 289-304):
\* prisma.message.findMany({where: {chatId}, orderBy: {createdAt: 'asc'}})
FetchMessages(chatId) ==
  /\ \E i \in 1..Len(wchats) : wchats[i].id = chatId
  /\ lastOp' = [NoOp EXCEPT !.op = "fetchMessages", !.ok = TRUE, !.chat = chatId,
                            !.wbefore = findManyMessages]
  /\ UNCHANGED <<now, mockVars, procVars, webVars, authVars, clientVars>>

\* messages on the chats that one client (u1) creates with u2, every user sending,
\* editing, deleting and listing
NextWebMessages ==
  \/ Tick
  \/ \E isGroup \in BOOLEAN : WebCreateChatCall("p1", "u1", <<"u2">>, isGroup)
  \/ WebCreateChatReturn("p1")
  \/ \E c \in 1..MaxTime, u \in Users, t \in Contents : HookSendMessage(c, u, t)
  \/ \E u \in Users, m \in 1..MaxTime, t \in Contents : PrismaUpdateMessage(u, m, t)
  \/ \E u \in Users, m \in 1..MaxTime : PrismaDeleteMessage(u, m)
  \/ \E c \in 1..MaxTime : FetchMessages(c)

SpecWebMessages == Init /\ [][NextWebMessages]_vars

\* ------------------------------- MockDatabase.getUserChats
\* new Date(c.last_message_at || c.created_at).getTime()
SortTime(c) ==
  IF mchats[c].last_message_at # NoTime THEN mchats[c].last_message_at ELSE mchats[c].created_at

\* Array.prototype.sort with the comparator (a, b) => SortTime(b) - SortTime(a):
\* descending, and stable, so equal chats keep the order they were pushed in
SortChats(cs) ==
  LET Before(c) == {d \in cs : SortTime(d) > SortTime(c) \/ (SortTime(d) = SortTime(c) /\ d < c)}
  IN [i \in 1..Cardinality(cs) |-> CHOOSE c \in cs : Cardinality(Before(c)) = i - 1]

\* MockDatabase.getUserChats (auth.ts 725-739)
getUserChats(userId) ==
  SortChats({c \in 1..Len(mchats) : \E i \in 1..Len(mparticipants[c]) :
                                       mparticipants[c][i].user_id = userId})

\* a call of db.getUserChats(user.id), as fetchChats makes it (part_009 14-17)
GetUserChats(userId) ==
  /\ lastOp' = [NoOp EXCEPT !.op = "getUserChats", !.ok = TRUE, !.user = userId,
                            !.list = getUserChats(userId)]
  /\ UNCHANGED <<now, mockVars, procVars>>
  /\ UNCHANGED <<webVars, authVars, clientVars>>

\* chats opened by u1, messages posted to them, and the chat list of every user
NextChatList ==
  \/ Tick
  \/ \E other \in Users : FindOrCreateStart("p1", "u1", other)
  \/ FindOrCreateFound("p1")
  \/ CreateChatStep("p1")
  \/ AddParticipantStep("p1")
  \/ CreateChatReturn("p1")
  \/ \E c \in 1..Len(mchats), u \in Users, t \in Contents, r \in Rnd : MockCreateMessage(c, u, t, r)
  \/ \E u \in Users : GetUserChats(u)

SpecChatList == Init /\ [][NextChatList]_vars

\* ------------------------------- useChats.createChat called by itself
\* the participantIds a caller of createChat passes
ParticipantLists ==
  {<<>>} \cup {<<a>> : a \in Users} \cup {<<a, b>> : a, b \in Users}

\* useChats.createChat (part_009 35-43) called by a client of the hook: up to
\* await db.createChat(isGroup, name), with allParticipants = [user.id, ...participantIds]
CreateChatCall(p, user, participantIds, isGroup) ==
  /\ ~Active(p)
  /\ Len(mchats) + PendingCreates < MaxChats
  /\ mchats' = Append(mchats, NewChat(isGroup))
  /\ mparticipants' = Append(mparticipants, <<>>)
  /\ mmessages' = Append(mmessages, <<>>)
  /\ posted' = Append(posted, <<>>)
  /\ call' = [call EXCEPT ![p] = [NoCall EXCEPT !.user = user, !.chat = Len(mchats) + 1,
                                                !.todo = <<user>> \o participantIds]]
  /\ pc' = [pc EXCEPT ![p] = "awaitCreate"]
  /\ ret' = [ret EXCEPT ![p] = NoChat]
  /\ lastOp' = NoOp
  /\ UNCHANGED <<now, overlapped, everOverlapped>>
  /\ UNCHANGED <<webVars, authVars, clientVars>>

\* the two calls useChats hands out (part_009 76-81), made by one client at a time
NextCreateChat ==
  \/ \E user \in Users, ids \in ParticipantLists, isGroup \in BOOLEAN :
       CreateChatCall("p1", user, ids, isGroup)
  \/ \E user \in Users, other \in Users : FindOrCreateStart("p1", user, other)
  \/ FindOrCreateFound("p1")
  \/ CreateChatStep("p1")
  \/ AddParticipantStep("p1")
  \/ CreateChatReturn("p1")

SpecCreateChat == Init /\ [][NextCreateChat]_vars

\* ------------------------------- useMessages over the hosted database
\* (src/ChatApp/hooks/useMessages.ts); the database and its realtime channel are
\* the hosted service: a select is answered from the table as it is when the
\* service runs it, and an INSERT is announced to the channels active at that time
hookFrame == UNCHANGED <<now, mockVars, procVars, lastOp, webVars, authVars, jwtVars, useAuthVars, pollVars>>

\* useEffect (10-61): fetchMessages() sends its select, then .subscribe() asks
\* for the channel
Mount ==
  /\ hfetch.at = "none"
  /\ hfetch' = [NoFetch EXCEPT !.at = "sent"]
  /\ hsub' = "joining"
  /\ UNCHANGED <<srv, hview, hevents, hpending>>
  /\ hookFrame

\* the service runs the select of fetchMessages (15-22)
FetchAnswered ==
  /\ hfetch.at = "sent"
  /\ hfetch' = [hfetch EXCEPT !.at = "answered",
                              !.data = [i \in 1..Len(srv) |-> srv[i].id]]
  /\ UNCHANGED <<srv, hview, hsub, hevents, hpending>>
  /\ hookFrame

\* fetchMessages 24-29, no error: setMessages(data || [])
FetchReturns ==
  /\ hfetch.at = "answered"
  /\ hview' = hfetch.data
  /\ hfetch' = [hfetch EXCEPT !.at = "done", !.ok = TRUE]
  /\ UNCHANGED <<srv, hsub, hevents, hpending>>
  /\ hookFrame

\* fetchMessages 24-25: the select came back with an error, the list stays
FetchFails ==
  /\ hfetch.at \in {"sent", "answered"}
  /\ hfetch' = [NoFetch EXCEPT !.at = "done"]
  /\ UNCHANGED <<srv, hview, hsub, hevents, hpending>>
  /\ hookFrame

\* the service has joined the channel asked for by .subscribe() (61)
SubscriptionActive ==
  /\ hsub = "joining"
  /\ hsub' = "active"
  /\ UNCHANGED <<srv, hview, hfetch, hevents, hpending>>
  /\ hookFrame

\* a row is inserted into messages, by sendMessage (68-82) of this or of
\* another client; the service announces it on the channel if that is active
InsertMessage ==
  /\ Len(srv) < MaxInserts
  /\ srv' = Append(srv, [id |-> Len(srv) + 1, mounted |-> hfetch.at # "none"])
  /\ hevents' = IF hsub = "active"
                THEN Append(hevents, [id |-> Len(srv) + 1, left |-> MaxDeliveries])
                ELSE hevents
  /\ UNCHANGED <<hview, hfetch, hsub, hpending>>
  /\ hookFrame

\* the handler of postgres_changes (45-54) is called with an event and sends
\* its select for the row; the channel delivers at least once, so the event
\* may stay on its way for another delivery
EventDelivered(k, again) ==
  /\ k \in 1..Len(hevents)
  /\ again => hevents[k].left > 1
  /\ hpending' = Append(hpending, hevents[k].id)
  /\ hevents' = IF again
                THEN [hevents EXCEPT ![k].left = hevents[k].left - 1]
                ELSE SubSeq(hevents, 1, k - 1) \o SubSeq(hevents, k + 1, Len(hevents))
  /\ UNCHANGED <<srv, hview, hfetch, hsub>>
  /\ hookFrame

\* the handler's select has returned the row (56-58):
\* setMessages((prev) => [...prev, data])
HandlerAppends(k) ==
  /\ k \in 1..Len(hpending)
  /\ hview' = Append(hview, hpending[k])
  /\ hpending' = SubSeq(hpending, 1, k - 1) \o SubSeq(hpending, k + 1, Len(hpending))
  /\ UNCHANGED <<srv, hfetch, hsub, hevents>>
  /\ hookFrame

NextRealtime ==
  \/ Mount
  \/ FetchAnswered
  \/ FetchReturns
  \/ FetchFails
  \/ SubscriptionActive
  \/ InsertMessage
  \/ \E k \in 1..Len(hevents), again \in BOOLEAN : EventDelivered(k, again)
  \/ \E k \in 1..Len(hpending) : HandlerAppends(k)

SpecRealtime == Init /\ [][NextRealtime]_vars

\* ------------------------------- useMessages by polling (part_007) over DatabaseAPI
\* db is DatabaseAPI when a database URL is configured (auth.ts 830); its calls
\* are requests to the hosted database, answered from the table as it is when
\* the statement runs, and the answers come back in any order
pollFrame == UNCHANGED <<now, mockVars, procVars, lastOp, webVars, authVars, jwtVars,
                         useAuthVars, hfetch, hsub, hevents, hpending>>

\* removes the k-th element of a sequence
RemoveAt(s, k) == SubSeq(s, 1, k - 1) \o SubSeq(s, k + 1, Len(s))

\* fetchMessages (14-25) or a turn of the interval (28-35): the call of
\* db.getChatMessages(chatId) sends its SELECT
PollStart ==
  /\ Len(hpolls) < MaxPolls
  /\ hpolls' = Append(hpolls, [at |-> "sent", data |-> <<>>])
  /\ UNCHANGED <<srv, hview, hsend>>
  /\ pollFrame

\* DatabaseAPI.getChatMessages (auth.ts 585-603): the database runs the SELECT
PollAnswered(k) ==
  /\ k \in 1..Len(hpolls)
  /\ hpolls[k].at = "sent"
  /\ hpolls' = [hpolls EXCEPT ![k] = [at |-> "answered",
                                      data |-> [i \in 1..Len(srv) |-> srv[i].id]]]
  /\ UNCHANGED <<srv, hview, hsend>>
  /\ pollFrame

\* part_007 17 / 31: setMessages(messageList)
PollReturns(k) ==
  /\ k \in 1..Len(hpolls)
  /\ hpolls[k].at = "answered"
  /\ hview' = hpolls[k].data
  /\ hpolls' = RemoveAt(hpolls, k)
  /\ UNCHANGED <<srv, hsend>>
  /\ pollFrame

\* sendMessage 42-46: the call of db.createMessage sends its INSERT
SendStart ==
  /\ hsend.at = "idle"
  /\ Len(srv) < MaxInserts
  /\ hsend' = [at |-> "sent", id |-> 0]
  /\ UNCHANGED <<srv, hview, hpolls>>
  /\ pollFrame

\* DatabaseAPI.createMessage (auth.ts 605-615): the database runs the INSERT
SendInserted ==
  /\ hsend.at = "sent"
  /\ srv' = Append(srv, [id |-> Len(srv) + 1, mounted |-> TRUE])
  /\ hsend' = [at |-> "answered", id |-> Len(srv) + 1]
  /\ UNCHANGED <<hview, hpolls>>
  /\ pollFrame

\* sendMessage 48-49: setMessages((prev) => [...prev, message])
SendReturns ==
  /\ hsend.at = "answered"
  /\ hview' = Append(hview, hsend.id)
  /\ hsend' = NoSend
  /\ UNCHANGED <<srv, hpolls>>
  /\ pollFrame

NextPolling ==
  \/ PollStart
  \/ \E k \in 1..Len(hpolls) : PollAnswered(k)
  \/ \E k \in 1..Len(hpolls) : PollReturns(k)
  \/ SendStart
  \/ SendInserted
  \/ SendReturns

SpecPolling == Init /\ [][NextPolling]_vars

\* ================================================================ claims
\* the unordered pair of users a findOrCreateDirectChat call is about
Pair(p) == {call[p].user, call[p].other}

\* the complete non-group chats whose participants are exactly the users in S
DirectChatsOfPair(S) ==
  {c \in 1..Len(mchats) :
     ~mchats[c].is_group /\ Len(mparticipants[c]) = 2 /\ Range(UserIds(c)) = S}

Finished(p) == pc[p] = "done"

\* C1: two findOrCreateDirectChat calls for the same pair of users that ran
\* concurrently have returned the same chat, and exactly one non-group chat
\* of that pair exists afterwards.
C1_ConcurrentCallsAgree ==
  \A p, q \in Procs :
    (p # q /\ Finished(p) /\ Finished(q) /\ p \in overlapped /\ q \in overlapped
       /\ Pair(p) = Pair(q))
    => /\ ret[p] = ret[q]
       /\ Cardinality(DirectChatsOfPair(Pair(p))) = 1

\* C2: as long as no two findOrCreateDirectChat calls have overlapped, at most
\* one non-group chat exists for every unordered pair {A,B} of two users, and
\* a finished call, whether A asked for B or B for A, has returned that chat
\* (the one the first call for the pair created).
C2_SequentialCallsIdempotent ==
  ~everOverlapped =>
    /\ \A S \in SUBSET Users :
         Cardinality(S) = 2 => Cardinality(DirectChatsOfPair(S)) <= 1
    /\ \A p \in Procs :
         (Finished(p) /\ call[p].user # call[p].other)
         => DirectChatsOfPair(Pair(p)) = {ret[p]}

\* C2 witness: A asked for B, then B asked for A, and both hold the same chat
C2_Witness ==
  /\ ~everOverlapped
  /\ Finished("p1") /\ Finished("p2")
  /\ call["p1"].user # call["p1"].other
  /\ call["p2"].user = call["p1"].other /\ call["p2"].other = call["p1"].user
  /\ ret["p1"] # NoChat /\ ret["p1"] = ret["p2"]

\* C4: right after a createMessage call on a chat has returned its message,
\* the chat's last_message is the message's content and its last_message_at
\* is the message's created_at, and the message is stored.
C4_SummaryFollowsMessage ==
  (lastOp.op = "createMessage" /\ lastOp.ok) =>
    /\ lastOp.message \in Range(mmessages[lastOp.chat])
    /\ mchats[lastOp.chat].last_message = lastOp.message.content
    /\ mchats[lastOp.chat].last_message_at = lastOp.message.created_at

\* C4 witness: a message has been returned on a chat whose summary showed an
\* older, different message
C4_Witness ==
  /\ lastOp.op = "createMessage" /\ lastOp.ok
  /\ lastOp.oldLast # NoText
  /\ lastOp.oldLast # lastOp.message.content
  /\ lastOp.oldLastAt < lastOp.message.created_at

\* (createdAt, id) of a message, compared as the code's values compare: the
\* id is `message_<Date.now()>_<random>`, a string compared left to right
KeyLeq(m1, m2) ==
  \/ m1.created_at < m2.created_at
  \/ /\ m1.created_at = m2.created_at
     /\ \/ m1.id[1] < m2.id[1]
        \/ m1.id[1] = m2.id[1] /\ m1.id[2] <= m2.id[2]

\* C6: listing a chat's messages returns them in non-decreasing
\* (createdAt, id) order, and in the order in which they were posted.
C6_ListedInKeyAndPostOrder ==
  \A c \in 1..Len(mchats) :
    LET list == getChatMessages(c)
    IN /\ \A i, j \in 1..Len(list) : i < j => KeyLeq(list[i], list[j])
       /\ [i \in 1..Len(list) |-> list[i].id] = posted[c]

\* C7: a createMessage call whose sender is not a participant of the chat
\* fails, stores no message and leaves the chat's summary as it was.
C7_NonParticipantRejected ==
  (lastOp.op = "createMessage" /\ ~lastOp.wasParticipant) =>
    /\ ~lastOp.ok
    /\ Len(mmessages[lastOp.chat]) = lastOp.oldCount
    /\ mchats[lastOp.chat].last_message = lastOp.oldLast
    /\ mchats[lastOp.chat].last_message_at = lastOp.oldLastAt

\* C3: the chat that findOrCreateDirectChat(other) has returned to a caller
\* is a non-group chat whose participants are exactly the caller and the
\* other user, never a chat of a different pair.
C3_ReturnedChatIsOfThePair ==
  \A p \in Procs :
    (Finished(p) /\ wret[p] # NoWebChat)
    => /\ ~wret[p].isGroup
       /\ Range(wret[p].participants) = Pair(p)

\* the messages of a chat, in storage order
MessagesOfChat(chatId) == SelectSeq(wmessages, LAMBDA m : m.chatId = chatId)

\* C5: in every state, a chat that has at least one message shows the content
\* and createdAt of its most recently stored message as lastMessage and
\* lastMessageAt.
C5_SummaryIsLatestMessage ==
  \A i \in 1..Len(wchats) :
    LET msgs == MessagesOfChat(wchats[i].id)
    IN msgs # <<>> =>
         /\ wchats[i].lastMessage = msgs[Len(msgs)].content
         /\ wchats[i].lastMessageAt = msgs[Len(msgs)].createdAt


\* the sessions among `ss` that were stored for `token`: bcrypt.compare(token,
\* session.tokenHash) would hold
SessionsOfToken(ss, token) == {x \in Range(ss) : x.tokenHash.plain = token}

\* C8: the session lookup returns a session iff a stored session has the given
\* token hash and now < expiresAt (an expired session is never returned)
C8_LookupIffValid ==
  lastAuth.op = "getValidSession" =>
    (lastAuth.ok <=> \E x \in Range(wsessions) :
                       x.tokenHash = lastAuth.hash /\ now < x.expiresAt)

\* C9: once signOut has removed the session record of a token, verifyToken never
\* succeeds for that token again, also while the token's own exp is in the future
C9_SignedOutTokenRejected ==
  (/\ lastAuth.op = "verifyToken"
   /\ lastAuth.token \in signedOut
   /\ SessionsOfToken(wsessions, lastAuth.token) = {})
    => ~lastAuth.ok

\* C10 as the specification states it: signOut(token) removes only the session of
\* the presented token, every other session of the same user is still stored
C10_OnlyPresentedSessionRemoved ==
  (lastAuth.op = "signOut" /\ lastAuth.ok) =>
    \A x \in Range(lastAuth.before) :
      x.tokenHash.plain # lastAuth.token => x \in Range(wsessions)

\* C10 as the code has it: a signOut(token) that succeeds removes every stored
\* session of the token's user, and every session of any other user stays stored
C10_SignOutRemovesAllOfUser ==
  (lastAuth.op = "signOut" /\ lastAuth.ok) =>
    /\ \A x \in Range(wsessions) : x.userId # lastAuth.token.userId
    /\ \A x \in Range(lastAuth.before) :
         x.userId # lastAuth.token.userId => x \in Range(wsessions)
    /\ Range(wsessions) \subseteq Range(lastAuth.before)

\* a signOut that removed two sessions of its user, one of them of another token
C10_Witness ==
  /\ lastAuth.op = "signOut"
  /\ lastAuth.ok
  /\ \E x, y \in Range(lastAuth.before) :
       /\ x.userId = lastAuth.token.userId
       /\ y.userId = lastAuth.token.userId
       /\ x.tokenHash.plain = lastAuth.token
       /\ y.tokenHash.plain # lastAuth.token


\* C11: right after the expiry sweep has run at time now, no stored session has
\* expiresAt < now
C11_NoExpiredSessionAfterSweep ==
  lastAuth.op = "cleanExpiredSessions" =>
    \A x \in Range(wsessions) : ~(x.expiresAt < now)

\* C12: the sweep, run at any moment, deletes only sessions with expiresAt < now:
\* every session with now < expiresAt that was stored before the sweep is still
\* stored after it and is still found by the session lookup
C12_SweepKeepsValidSessionsFound ==
  lastAuth.op = "cleanExpiredSessions" =>
    \A x \in Range(lastAuth.before) :
      now < x.expiresAt =>
        /\ x \in Range(wsessions)
        /\ getValidSession(x.tokenHash) = x


\* C13: decoding a token before its expiry yields the userId the token was
\* issued for, for every userId and every lifetime
C13_DecodeYieldsIssuedUser ==
  (lastJwt.op = "decode" /\ lastJwt.wellFormed /\ ~lastJwt.expired) =>
    /\ lastJwt.ok
    /\ \A t \in jissued : t.token = lastJwt.token => lastJwt.payload.userId = t.userId

\* an unexpired token has been decoded some time after it was made
C13_Witness ==
  /\ lastJwt.op = "decode" /\ lastJwt.wellFormed /\ ~lastJwt.expired
  /\ lastJwt.ok
  /\ lastJwt.payload.userId = <<Chr("user-2")>>
  /\ lastJwt.payload.iat < NowSeconds

\* C14: decoding a token whose exp is at or before now fails, and with an error
\* that differs from the one a structurally invalid token gets
C14_ExpiredDistinctFromMalformed ==
  (lastJwt.op = "decode" /\ lastJwt.wellFormed /\ lastJwt.expired) =>
    /\ ~lastJwt.ok
    /\ lastJwt.error # decode(Truncated(lastJwt.token)).error

\* C15: refreshToken fails for an expired token, and when it succeeds it yields
\* a new token, after which the old token no longer decodes and the new one does
C15_RefreshRotatesToken ==
  lastJwt.op = "refreshToken" =>
    /\ lastJwt.ok => /\ lastJwt.wellFormed
                     /\ lastJwt.newToken # lastJwt.token
                     /\ ~decode(lastJwt.token).ok
                     /\ decode(lastJwt.newToken).ok
    /\ lastJwt.expired => ~lastJwt.ok


\* C16: a signIn that fails, for an unknown e-mail or for a wrong password,
\* returns the same error message in both cases, and has neither stored a
\* session nor changed anybody's online status
C16_SignInFailuresAlike ==
  (lastAuth.op = "signIn" /\ ~lastAuth.ok) =>
    /\ lastAuth.error = "Invalid email or password"
    /\ wsessions = lastAuth.before
    /\ wprofiles = lastAuth.profilesBefore

\* a signIn with a known e-mail and a wrong password has failed while sessions
\* were stored
C16_Witness ==
  /\ lastAuth.op = "signIn" /\ ~lastAuth.ok
  /\ findUserByEmail(lastAuth.email) # NoUser
  /\ findUserByEmail(lastAuth.email).passwordHash # MockHash
  /\ wsessions # <<>>


\* C17: in every state each user has exactly one profile with the user's id
C17_UserHasOneProfile ==
  \A u \in Range(wusers) :
    Cardinality({i \in 1..Len(wprofiles) : wprofiles[i].id = u.id}) = 1

\* C18: no two stored users share an e-mail address and no two stored profiles
\* share a username, also when sign-ups run concurrently
C18_EmailAndUsernameUnique ==
  /\ \A i, j \in 1..Len(wusers) : wusers[i].email = wusers[j].email => i = j
  /\ \A i, j \in 1..Len(wprofiles) : wprofiles[i].username = wprofiles[j].username => i = j


\* C19: the message list of a mounted useMessages hook never holds the same
\* message id twice
C19_NoDuplicateInList ==
  \A i, j \in 1..Len(hview) : hview[i] = hview[j] => i = j

\* nothing of the hook is under way: the fetch is over, the channel is active,
\* no event is on its way and no handler is waiting
HookAtRest ==
  /\ hfetch.at = "done"
  /\ hsub = "active"
  /\ hevents = <<>>
  /\ hpending = <<>>

\* C20: every message inserted while the hook was mounted appears in its list:
\* once the fetch has succeeded and nothing of the hook is under way any more,
\* none of them is missing
C20_NoMessageMissedForGood ==
  HookAtRest /\ hfetch.ok =>
    \A m \in Range(srv) : m.mounted => m.id \in Range(hview)


\* chats whose creating call has not returned yet
ChatsBeingCreated == {call[p].chat : p \in {q \in Procs : Active(q)}}

\* C21: once the creating call has returned, every non-group chat has exactly
\* two participants
C21_DirectChatHasTwoParticipants ==
  \A c \in 1..Len(mchats) :
    (~mchats[c].is_group /\ c \notin ChatsBeingCreated) => Len(mparticipants[c]) = 2

\* C22: no chat holds two participant records of the same user
C22_ParticipantRecordsUnique ==
  \A c \in 1..Len(mchats) :
    \A i, j \in 1..Len(mparticipants[c]) :
      mparticipants[c][i].user_id = mparticipants[c][j].user_id => i = j


\* the listed chats are the chats the user participates in, each once
ListedAreUserChats ==
  /\ Range(lastOp.list) = {c \in 1..Len(mchats) : lastOp.user \in Range(UserIds(c))}
  /\ \A i, j \in 1..Len(lastOp.list) : lastOp.list[i] = lastOp.list[j] => i = j

\* chat a may stand before chat b: lastMessageAt descending, chats without
\* one last, ties by createdAt descending
MayPrecede(a, b) ==
  LET la == mchats[a].last_message_at
      lb == mchats[b].last_message_at
  IN \/ la # NoTime /\ lb = NoTime
     \/ la # NoTime /\ lb # NoTime /\ la > lb
     \/ la = lb /\ mchats[a].created_at >= mchats[b].created_at

\* C23: the chat list of a user holds exactly the user's chats, by
\* lastMessageAt descending, chats without one last, ties by createdAt descending
C23_ChatListOrdered ==
  lastOp.op = "getUserChats" =>
    /\ ListedAreUserChats
    /\ \A i, j \in 1..Len(lastOp.list) :
         i < j => MayPrecede(lastOp.list[i], lastOp.list[j])


\* the message an edit or a delete was aimed at, as it was stored before
TargetBefore ==
  lastOp.wbefore[CHOOSE i \in 1..Len(lastOp.wbefore) : lastOp.wbefore[i].id = lastOp.target]

\* C24: an edit or delete requested by a user who is not the message's sender
\* is rejected and leaves the stored messages as they were
C24_OnlySenderMutates ==
  (/\ lastOp.op \in {"updateMessage", "deleteMessage"}
   /\ \E i \in 1..Len(lastOp.wbefore) : lastOp.wbefore[i].id = lastOp.target
   /\ TargetBefore.senderId # lastOp.user)
  => (~lastOp.ok /\ wmessages = lastOp.wbefore)

\* C25: creating a message adds one message and leaves every message stored
\* before in the store, under an id of its own
C25_CreateKeepsEarlierMessages ==
  lastOp.op = "messageCreate" =>
    /\ \A m \in Range(lastOp.wbefore) : m \in Range(wmessages) /\ m.id # lastOp.target
    /\ Len(wmessages) = Len(lastOp.wbefore) + 1

\* C26: the list of a chat holds exactly the stored messages of that chat,
\* each once, and no message of another chat
C26_ListIsTheChatsMessages ==
  lastOp.op = "fetchMessages" =>
    /\ \A m \in Range(lastOp.wbefore) : m.chatId = lastOp.chat
    /\ \A m \in Range(wmessages) : m.chatId = lastOp.chat => m \in Range(lastOp.wbefore)
    /\ \A i, j \in 1..Len(lastOp.wbefore) :
         lastOp.wbefore[i].id = lastOp.wbefore[j].id => i = j


\* C30: a signUp that returns success: false has added no user, no profile and
\* no session
C30_FailedSignUpAddsNothing ==
  (lastAuth.op = "signUp" /\ ~lastAuth.ok) =>
    /\ wusers = lastAuth.usersBefore
    /\ wprofiles = lastAuth.profilesBefore
    /\ wsessions = lastAuth.before


C28_InitializeAuthSparesNewSession ==
  /\ lastHook.op = "initializeAuth.multiRemove" => lastHook.removed \in {NoToken, lastHook.stored}
  /\ lastHook.op = "initializeAuth.clearSession" => lastHook.cleared \in {NoToken, lastHook.stored}


\* C29: under the polling hook a message that is in the visible list stays in
\* it as long as it is stored
C29_VisibleMessageStays ==
  [][\A m \in Range(hview) :
       (\E i \in 1..Len(srv') : srv'[i].id = m) => m \in Range(hview')]_vars

====
